---------------------------- MODULE Spec2Model ----------------------------
(***************************************************************************)
(* Range2CIDRs (src/range2cidr.go): conversion of an inclusive IP range    *)
(* into a list of CIDR blocks.                                             *)
(*                                                                         *)
(* Addresses are byte slices (net.IP).  The model keeps the byte-slice     *)
(* representation, the normalisation of standardizeIP (To4 / To16), the    *)
(* big.Int round trip (SetBytes / FillBytes) and the two scans of the      *)
(* loop body.  It is scaled down: a byte carries BitsPerByte bits, an      *)
(* IPv4 address has IPv4len bytes and an IPv6 address IPv6len bytes, and   *)
(* the IPv4-mapped prefix of an IPv6 address is ZeroLen zero bytes         *)
(* followed by FFLen all-ones bytes, as in package net.                    *)
(***************************************************************************)
EXTENDS Integers, Sequences, FiniteSets, TLC

\* An element of an address slice carries one bit in the model (a byte of 8
\* bits in Go, line 34): the address width is len * BitsPerByte.
BitsPerByte == 1
IPv4len == 2              \* net.IPv4len = 4
IPv6len == 5              \* net.IPv6len = 16

FFLen == 1                \* number of 0xff bytes of the v4-in-v6 prefix (2 in Go)
ZeroLen == IPv6len - IPv4len - FFLen   \* number of leading zero bytes (10 in Go)

ByteMax == 2 ^ BitsPerByte - 1         \* 0xff
Byte == 0 .. ByteMax

\* Cap on the number of loop iterations explored; 2^(address bits) blocks
\* can never be needed, each block holding at least one address.
MaxBlocks == 2 ^ (IPv6len * BitsPerByte)

---------------------------------------------------------------------------
(* net.IP values: a nil slice, or a slice of bytes of some length *)

NilIP == [isNil |-> TRUE, bytes |-> <<>>]
MkIP(bs) == [isNil |-> FALSE, bytes |-> bs]
len(ip) == Len(ip.bytes)

RECURSIVE ByteSeqs(_)
ByteSeqs(n) ==
  IF n = 0 THEN { <<>> }
  ELSE { Append(s, b) : s \in ByteSeqs(n - 1), b \in Byte }

\* the inputs a caller can pass: nil, or any byte slice of 0..IPv6len bytes
InputIPs == { NilIP } \cup { MkIP(bs) : bs \in UNION { ByteSeqs(n) : n \in 0 .. IPv6len } }

---------------------------------------------------------------------------
(* math/big operations used by Range2CIDRs *)

Cmp(x, y) == IF x < y THEN -1 ELSE IF x = y THEN 0 ELSE 1
Lsh(x, n) == x * 2 ^ n
Sub(x, y) == x - y
Add(x, y) == x + y
Not(x) == (-x) - 1

RECURSIVE BitAnd(_, _)
BitAnd(x, y) ==
  IF x = 0 \/ y = 0 THEN 0
  ELSE (x % 2) * (y % 2) + 2 * BitAnd(x \div 2, y \div 2)

RECURSIVE BitAndNot(_, _)
BitAndNot(x, y) ==
  IF x = 0 THEN 0
  ELSE (x % 2) * (1 - (y % 2)) + 2 * BitAndNot(x \div 2, y \div 2)

RECURSIVE BitOr(_, _)
BitOr(x, y) ==
  IF x = 0 THEN y
  ELSE IF y = 0 THEN x
  ELSE (IF (x % 2) + (y % 2) > 0 THEN 1 ELSE 0) + 2 * BitOr(x \div 2, y \div 2)

\* big.Int.And on two's-complement integers of unbounded width
And(x, y) ==
  IF x >= 0 /\ y >= 0 THEN BitAnd(x, y)
  ELSE IF x >= 0 THEN BitAndNot(x, (-y) - 1)
  ELSE IF y >= 0 THEN BitAndNot(y, (-x) - 1)
  ELSE (-(BitOr((-x) - 1, (-y) - 1))) - 1

\* big.Int.Or; both operands of the one call are non-negative
Or(x, y) == BitOr(x, y)

\* big.Int.SetBytes: big-endian unsigned interpretation of a byte slice
RECURSIVE SetBytes(_)
SetBytes(bs) ==
  IF Len(bs) = 0 THEN 0
  ELSE SetBytes(SubSeq(bs, 1, Len(bs) - 1)) * (ByteMax + 1) + bs[Len(bs)]

\* big.Int.FillBytes: big-endian bytes of x, zero-extended to n bytes
RECURSIVE FillBytes(_, _)
FillBytes(x, n) ==
  IF n = 0 THEN <<>>
  ELSE Append(FillBytes(x \div (ByteMax + 1), n - 1), x % (ByteMax + 1))

---------------------------------------------------------------------------
(* package net: To4, To16, CIDRMask *)

Zeros(n) == [i \in 1 .. n |-> 0]
Ones(n) == [i \in 1 .. n |-> ByteMax]
v4InV6Prefix == Zeros(ZeroLen) \o Ones(FFLen)

To4(ip) ==
  IF len(ip) = IPv4len THEN ip
  ELSE IF len(ip) = IPv6len
          /\ SubSeq(ip.bytes, 1, IPv6len - IPv4len) = v4InV6Prefix
       THEN MkIP(SubSeq(ip.bytes, IPv6len - IPv4len + 1, IPv6len))
  ELSE NilIP

To16(ip) ==
  IF len(ip) = IPv4len THEN MkIP(v4InV6Prefix \o ip.bytes)
  ELSE IF len(ip) = IPv6len THEN ip
  ELSE NilIP

\* net.CIDRMask(ones, bits): nil unless bits is the bit length of a v4 or
\* v6 address and 0 <= ones <= bits
CIDRMask(ones, bits) ==
  IF bits # BitsPerByte * IPv4len /\ bits # BitsPerByte * IPv6len THEN NilIP
  ELSE IF ones < 0 \/ ones > bits THEN NilIP
  ELSE MkIP(FillBytes(2 ^ bits - 2 ^ (bits - ones), bits \div BitsPerByte))

---------------------------------------------------------------------------
(* range2cidr.go *)

standardizeIP(ip) ==
  IF ~ To4(ip).isNil THEN To4(ip) ELSE To16(ip)

\* lines 42-49: the largest i < maxLen with 2^i <= diff
RECURSIVE MaxSizeFrom(_, _, _, _)
MaxSizeFrom(i, maxSize, diff, maxLen) ==
  IF i < maxLen
  THEN IF Cmp(Lsh(1, i), diff) > 0 THEN maxSize
       ELSE MaxSizeFrom(i + 1, i, diff, maxLen)
  ELSE maxSize

FindMaxSizeZero(diff, maxLen) == 0

FindMaxSize(diff, maxLen) == MaxSizeFrom(0, 0, diff, maxLen)

\* lines 52-65: from maxSize downwards, the first i at which startInt is
\* aligned and the block's last address is within the range
RECURSIVE AlignFromNoAlign(_, _, _, _)
AlignFromNoAlign(i, maxSize, s, e) ==
  IF i >= 0
  THEN LET mask == Sub(Lsh(1, i), 1)
       IN  IF Cmp(Or(s, mask), e) <= 0 THEN i
           ELSE AlignFromNoAlign(i - 1, maxSize, s, e)
  ELSE maxSize

RECURSIVE AlignFrom(_, _, _, _)
AlignFrom(i, maxSize, s, e) ==
  IF i >= 0
  THEN LET mask == Sub(Lsh(1, i), 1)
           networkStart == And(s, Not(mask))
           networkEnd == Or(s, mask)
       IN  IF Cmp(networkStart, s) = 0 /\ Cmp(networkEnd, e) <= 0 THEN i
           ELSE AlignFrom(i - 1, maxSize, s, e)
  ELSE maxSize

\* lines 38-65: the exponent of the block emitted at startInt
BlockSize(s, e, maxLen) ==
  LET diff == Add(Sub(e, s), 1)
      maxSize == FindMaxSize(diff, maxLen)
  IN  AlignFrom(maxSize, maxSize, s, e)

\* lines 68-75
MakeCIDR(s, maxSize, maxLen, nbytes) ==
  [IP |-> MkIP(FillBytes(s, nbytes)), Mask |-> CIDRMask(maxLen - maxSize, maxLen)]

\* lines 79-80
AdvanceStuck(s, maxSize) == s

AdvanceByOne(s, maxSize) == Add(s, 1)

Advance(s, maxSize) == Add(s, Lsh(1, maxSize))

\* line 29
RangeInvertedNever(s, e) == FALSE

RangeInverted(s, e) == Cmp(s, e) > 0

\* line 36
LoopCond(s, e) == Cmp(s, e) <= 0

\* lines 36-81 as a whole
RECURSIVE LoopAll(_, _, _, _, _)
LoopAll(s, e, maxLen, nbytes, acc) ==
  IF LoopCond(s, e)
  THEN LET k == BlockSize(s, e, maxLen)
       IN  LoopAll(Advance(s, k), e, maxLen, nbytes,
                   Append(acc, MakeCIDR(s, k, maxLen, nbytes)))
  ELSE acc

\* the function as a whole, lines 11-84
Range2CIDRs(a, b) ==
  IF a.isNil \/ b.isNil THEN [cidrs |-> <<>>, err |-> "invalid"]
  ELSE LET s == standardizeIP(a)
           e == standardizeIP(b)
       IN  IF len(s) # len(e) THEN [cidrs |-> <<>>, err |-> "mismatch"]
           ELSE IF RangeInverted(SetBytes(s.bytes), SetBytes(e.bytes))
                THEN [cidrs |-> <<>>, err |-> "inverted"]
           ELSE [cidrs |-> LoopAll(SetBytes(s.bytes), SetBytes(e.bytes),
                                   len(s) * BitsPerByte, len(s), <<>>),
                 err |-> "none"]

---------------------------------------------------------------------------
(* one call of Range2CIDRs, one loop iteration per step *)

VARIABLES argStart, argEnd, startIP, endIP, startInt, endInt, maxLen, cidrs, err, pc

vars == <<argStart, argEnd, startIP, endIP, startInt, endInt, maxLen, cidrs, err, pc>>

Init ==
  /\ argStart \in InputIPs
  /\ argEnd \in InputIPs
  /\ startIP = argStart
  /\ endIP = argEnd
  /\ startInt = 0
  /\ endInt = 0
  /\ maxLen = 0
  /\ cidrs = <<>>
  /\ err = "none"
  /\ pc = "entry"

\* lines 12-34
Validate ==
  /\ pc = "entry"
  /\ UNCHANGED <<argStart, argEnd, cidrs>>
  /\ IF startIP.isNil \/ endIP.isNil
     THEN /\ err' = "invalid"
          /\ pc' = "done"
          /\ UNCHANGED <<startIP, endIP, startInt, endInt, maxLen>>
     ELSE LET s == standardizeIP(startIP)
              e == standardizeIP(endIP)
          IN  /\ startIP' = s
              /\ endIP' = e
              /\ IF len(s) # len(e)
                 THEN /\ err' = "mismatch"
                      /\ pc' = "done"
                      /\ UNCHANGED <<startInt, endInt, maxLen>>
                 ELSE /\ startInt' = SetBytes(s.bytes)
                      /\ endInt' = SetBytes(e.bytes)
                      /\ IF RangeInverted(SetBytes(s.bytes), SetBytes(e.bytes))
                         THEN /\ err' = "inverted"
                              /\ pc' = "done"
                              /\ UNCHANGED maxLen
                         ELSE /\ maxLen' = len(s) * BitsPerByte
                              /\ pc' = "loop"
                              /\ UNCHANGED err

\* lines 36-81, one iteration
Iterate ==
  /\ pc = "loop"
  /\ LoopCond(startInt, endInt)
  /\ Len(cidrs) < MaxBlocks
  /\ LET k == BlockSize(startInt, endInt, maxLen)
     IN  /\ cidrs' = Append(cidrs, MakeCIDR(startInt, k, maxLen, len(startIP)))
         /\ startInt' = Advance(startInt, k)
  /\ UNCHANGED <<argStart, argEnd, startIP, endIP, endInt, maxLen, err, pc>>

\* lines 36 and 83: the loop condition fails and the list is returned
Return ==
  /\ pc = "loop"
  /\ ~ LoopCond(startInt, endInt)
  /\ pc' = "done"
  /\ UNCHANGED <<argStart, argEnd, startIP, endIP, startInt, endInt, maxLen, cidrs, err>>

Next == Validate \/ Iterate \/ Return

Spec == Init /\ [][Next]_vars

\* the function runs to completion: no step is postponed for ever
FairSpec == Spec /\ WF_vars(Next)

---------------------------------------------------------------------------
(* vocabulary of the properties *)

NormStart == standardizeIP(argStart)
NormEnd == standardizeIP(argEnd)

WellFormed(ip) == ~ ip.isNil /\ len(ip) \in {IPv4len, IPv6len}

\* start and end normalise to addresses of one width, and start <= end
ValidRange ==
  /\ WellFormed(argStart) /\ WellFormed(argEnd)
  /\ len(NormStart) = len(NormEnd)
  /\ SetBytes(NormStart.bytes) <= SetBytes(NormEnd.bytes)

\* start and end normalise to addresses of one width, and start > end
InvertedRange ==
  /\ WellFormed(argStart) /\ WellFormed(argEnd)
  /\ len(NormStart) = len(NormEnd)
  /\ SetBytes(NormStart.bytes) > SetBytes(NormEnd.bytes)

Width(b) == len(b.IP) * BitsPerByte
NetAddr(b) == SetBytes(b.IP.bytes)
HostMask(b) == (2 ^ Width(b) - 1) - SetBytes(b.Mask.bytes)
LastAddr(b) == BitOr(NetAddr(b), HostMask(b))
IsPrefixMask(b) == ~ b.Mask.isNil /\ \E p \in 0 .. Width(b) : HostMask(b) + 1 = 2 ^ (Width(b) - p)
PrefixLen(b) == CHOOSE p \in 0 .. Width(b) : HostMask(b) + 1 = 2 ^ (Width(b) - p)
LastIP(b) == MkIP(FillBytes(LastAddr(b), len(b.IP)))

AllZero(ip) == ip.bytes = Zeros(len(ip))
AllOnes(ip) == ip.bytes = Ones(len(ip))

Min(S) == CHOOSE m \in S : \A x \in S : m <= x

\* t[a]: the least number of aligned blocks of a w-bit space whose disjoint union is [a, e]
RECURSIVE MinTab(_, _, _)
MinTab(s, e, w) ==
  IF s > e THEN (e + 1) :> 0
  ELSE LET t == MinTab(s + 1, e, w)
           ks == { k \in 0 .. w : s % (2 ^ k) = 0 /\ s + 2 ^ k - 1 <= e }
       IN  (s :> (1 + Min({ t[s + 2 ^ k] : k \in ks }))) @@ t
MinBlocks(s, e, w) == MinTab(s, e, w)[s]

\* two neighbouring blocks whose union is itself an aligned block
Mergeable(b1, b2) ==
  \E k \in 0 .. Width(b1) :
     /\ LastAddr(b2) - NetAddr(b1) + 1 = 2 ^ k
     /\ NetAddr(b1) % (2 ^ k) = 0

\* the exploration cap of Iterate never stops a run of the code, and the
\* step-by-step run returns what the function as a whole returns
CapNeverBinds == (pc = "loop" /\ LoopCond(startInt, endInt)) => Len(cidrs) < MaxBlocks
StepsAgreeWithFunction ==
  pc = "done" => Range2CIDRs(argStart, argEnd) = [cidrs |-> cidrs, err |-> err]

---------------------------------------------------------------------------
(* properties *)

\* C1: for every valid range the returned list tiles [start, end] in
\* ascending order: the first block starts at start, every later block
\* starts one past the last address of its predecessor, and the last block
\* ends at end.  While the loop runs the blocks emitted so far tile
\* [start, startInt - 1] in the same way.
C1_ExactTiling ==
  (ValidRange /\ pc \in {"loop", "done"}) =>
     /\ err = "none"
     /\ \A i \in 1 .. Len(cidrs) : IsPrefixMask(cidrs[i]) /\ len(cidrs[i].IP) = len(NormStart)
     /\ Len(cidrs) >= 1 => NetAddr(cidrs[1]) = SetBytes(NormStart.bytes)
     /\ \A i \in 1 .. Len(cidrs) - 1 :
           /\ NetAddr(cidrs[i + 1]) = LastAddr(cidrs[i]) + 1
           /\ NetAddr(cidrs[i + 1]) > NetAddr(cidrs[i])
     /\ Len(cidrs) >= 1 => LastAddr(cidrs[Len(cidrs)]) = startInt - 1
     /\ pc = "done" =>
           /\ Len(cidrs) >= 1
           /\ LastAddr(cidrs[Len(cidrs)]) = SetBytes(NormEnd.bytes)

C1_Witness ==
  /\ pc = "done" /\ ValidRange /\ Len(cidrs) >= 3
  /\ \E i \in 1 .. Len(cidrs) : LastAddr(cidrs[i]) > NetAddr(cidrs[i])

\* C2: for every valid range the number of returned blocks is the least
\* number of aligned blocks whose disjoint union is [start, end], and no
\* two neighbouring blocks of the output merge into one aligned block.
C2_Minimality ==
  (ValidRange /\ pc = "done") =>
     /\ Len(cidrs) = MinBlocks(SetBytes(NormStart.bytes), SetBytes(NormEnd.bytes), maxLen)
     /\ \A i \in 1 .. Len(cidrs) - 1 : ~ Mergeable(cidrs[i], cidrs[i + 1])

\* C3: the whole address space (start all-zero, end all-ones) is returned
\* as exactly one block, network address all-zero and prefix length 0.
C3_WholeSpaceOneBlock ==
  (ValidRange /\ pc = "done" /\ AllZero(NormStart) /\ AllOnes(NormEnd)) =>
     /\ Len(cidrs) = 1
     /\ NetAddr(cidrs[1]) = 0
     /\ PrefixLen(cidrs[1]) = 0

\* C4: for every valid range every emitted block is aligned: its network
\* address is a multiple of 2^(width - prefixLength).
C4_Aligned ==
  ValidRange =>
     \A i \in 1 .. Len(cidrs) :
        /\ IsPrefixMask(cidrs[i])
        /\ NetAddr(cidrs[i]) % (2 ^ (Width(cidrs[i]) - PrefixLen(cidrs[i]))) = 0

C4_Witness ==
  /\ pc = "done" /\ ValidRange /\ Len(cidrs) >= 2
  /\ \E i \in 1 .. Len(cidrs) :
        /\ NetAddr(cidrs[i]) # 0
        /\ PrefixLen(cidrs[i]) < Width(cidrs[i])

\* C5: decomposing the range [network address, last address] of any block
\* of the output returns exactly the one-element list holding that block.
C5_Idempotent ==
  (ValidRange /\ pc = "done") =>
     \A i \in 1 .. Len(cidrs) :
        Range2CIDRs(cidrs[i].IP, LastIP(cidrs[i])) = [cidrs |-> << cidrs[i] >>, err |-> "none"]

\* C6 as stated: for a valid range of width w at most w blocks are emitted,
\* at every point of the loop.
C6_AtMostWidthBlocks ==
  ValidRange => Len(cidrs) <= maxLen

\* C6 amended: for a valid range of width w >= 2 at most 2w - 2 blocks are
\* emitted, at every point of the loop.
C6_AtMostTwiceWidthBlocks ==
  (ValidRange /\ pc \in {"loop", "done"}) => Len(cidrs) <= 2 * maxLen - 2

C6_Witness ==
  /\ pc = "done" /\ ValidRange /\ maxLen >= 3
  /\ Len(cidrs) = 2 * maxLen - 2

\* C7: when start and end have one width and start > end, the call returns
\* the inverted-range error and the empty list, and no block is emitted at
\* any point of the call.
C7_InvertedRange ==
  InvertedRange =>
     /\ cidrs = <<>>
     /\ pc # "loop"
     /\ pc = "done" => err = "inverted"

C7_Witness ==
  /\ pc = "done" /\ InvertedRange /\ err = "inverted"
  /\ startInt > endInt

\* C8: when an input is nil or is not a 4- or 16-byte slice, the call fails
\* with the invalid-input error and returns no block.
C8_InvalidInput ==
  (pc = "done" /\ (~ WellFormed(argStart) \/ ~ WellFormed(argEnd))) =>
     /\ err = "invalid"
     /\ cidrs = <<>>

\* C9: for every valid range the loop terminates: once entered it is
\* eventually left, also when end is the all-ones address and the last
\* advance takes start to 2^width.
C9_Terminates ==
  (ValidRange /\ pc = "loop") ~> (pc = "done")

C9_Witness ==
  /\ pc = "done" /\ ValidRange
  /\ AllOnes(NormEnd)
  /\ startInt = 2 ^ maxLen
  /\ Len(cidrs) >= 2

\* C10: two well-formed inputs of the same byte length with start <= end
\* give no error and blocks of that byte length; the family-mismatch error
\* comes only from inputs of different byte lengths.
C10_SameLengthAccepted ==
  (pc = "done" /\ WellFormed(argStart) /\ WellFormed(argEnd)) =>
     /\ (len(argStart) = len(argEnd) /\ SetBytes(argStart.bytes) <= SetBytes(argEnd.bytes)) =>
           /\ err = "none"
           /\ \A i \in 1 .. Len(cidrs) : len(cidrs[i].IP) = len(argStart)
     /\ err = "mismatch" => len(argStart) # len(argEnd)

=============================================================================
